---- MODULE Spec2Model ----
(***************************************************************************)
(* A model of implement.py: the intent chatbot (startup and training,      *)
(* chatbot), its chat log (save_chat_log, load_chat_history) and the       *)
(* Streamlit page function main.                                           *)
(*                                                                         *)
(* A text is a sequence of characters.  A character is a one-character     *)
(* string; CR and LF stand for "\r" and "\n".  A longer string inside a    *)
(* text (a header cell, a timestamp, a canned reply) is a run of plain     *)
(* characters, none of them a comma, a double quote or a line break, kept  *)
(* as one element because no code path looks inside it.                    *)
(***************************************************************************)
EXTENDS Integers, Sequences, FiniteSets, TLC

VARIABLES
    source,        \* intents.json as found on disk
    phase,         \* where the script's top-level code ended
    intents,       \* the list bound by json.load
    reply,         \* the outcome of the last chatbot call
    log,           \* chat_log.csv
    perm,          \* whether chat_log.csv can be read / written
    clock,         \* the wall clock, in seconds
    origin,        \* what chat_log.csv was when the run began
    recorded,      \* the rows save_chat_log has written so far, in call order
    history,       \* the outcome of load_chat_history, until the log changes
    choice,        \* the sidebar selectbox
    user_input,    \* the text box, st.text_input(key="user_input")
    chat_history,  \* st.session_state.chat_history
    run,           \* the outcome of the last script run of main
    submitted      \* the texts the user submitted so far, in order

chatVars == <<source, phase, intents, reply>>
logVars == <<log, perm, clock, origin, recorded, history>>
pageVars == <<choice, user_input, chat_history, run, submitted>>
vars == <<chatVars, logVars, pageVars>>

---------------------------------------------------------------------------
(* Bounds of the model.                                                    *)
MaxIntents == 3
MaxSaves == 2
MaxClock == 1
MaxTurns == 3

---------------------------------------------------------------------------
(* Characters.                                                             *)
SP == " "
COMMA == ","
QUOTE == "\""
CR == "CR"
LF == "LF"
TAB == "TAB"

Whitespace == {SP, TAB, CR, LF}

RECURSIVE Join(_, _)
Join(parts, sep) ==
    IF parts = <<>> THEN <<>>
    ELSE IF Len(parts) = 1 THEN parts[1]
    ELSE parts[1] \o sep \o Join(Tail(parts), sep)

---------------------------------------------------------------------------
(* csv.writer(csvfile).writerow(row) with the default (excel) dialect:     *)
(* a field holding the delimiter, the quote character or a line break is   *)
(* quoted, a quote inside it doubled; fields are joined by commas and the  *)
(* row ends with "\r\n".                                                   *)
NeedsQuote(f) == \E i \in 1..Len(f) : f[i] \in {COMMA, QUOTE, CR, LF}

RECURSIVE DoubleQuotes(_)
DoubleQuotes(f) ==
    IF f = <<>> THEN <<>>
    ELSE (IF Head(f) = QUOTE THEN <<QUOTE, QUOTE>> ELSE <<Head(f)>>)
         \o DoubleQuotes(Tail(f))

WriteField(f) ==
    IF NeedsQuote(f) THEN <<QUOTE>> \o DoubleQuotes(f) \o <<QUOTE>> ELSE f

writerow(row) ==
    Join([i \in 1..Len(row) |-> WriteField(row[i])], <<COMMA>>) \o <<CR, LF>>

HeaderRow == << <<"User Input">>, <<"Chatbot Response">>, <<"Timestamp">> >>

(* datetime.datetime.now().strftime("%Y-%m-%d %H:%M:%S"): date, blank,     *)
(* time of day; the seconds are the clock's.                               *)
strftime(now) == <<"2026-01-01", SP, "00:00:", ToString(now)>>

---------------------------------------------------------------------------
(* The file chat_log.csv: absent, or its characters.                       *)
NoFile == [exists |-> FALSE, data |-> <<>>]
FileOf(data) == [exists |-> TRUE, data |-> data]

(* save_chat_log(user_input, response): the header is written only when    *)
(* os.path.exists says there is no file; the row is appended.  Either      *)
(* open() raises when the file cannot be written.                          *)
save_chat_log(file, canWrite, user, response, now) ==
    IF ~canWrite THEN [raised |-> TRUE, file |-> file]
    ELSE LET started == IF ~file.exists THEN FileOf(writerow(HeaderRow))
                        ELSE file
         IN  [raised |-> FALSE,
              file |-> FileOf(started.data
                              \o writerow(<<user, response, strftime(now)>>))]

---------------------------------------------------------------------------
(* open(file_name, "r") without newline="": the text layer hands the       *)
(* reader "\n" for every "\r\n" and for every lone "\r" of the file.       *)
RECURSIVE UniversalNewlines(_)
UniversalNewlines(s) ==
    IF s = <<>> THEN <<>>
    ELSE IF Head(s) = CR
         THEN <<LF>> \o UniversalNewlines(
                  IF Len(s) > 1 /\ s[2] = LF THEN Tail(Tail(s)) ELSE Tail(s))
         ELSE <<Head(s)>> \o UniversalNewlines(Tail(s))

(* csv.reader takes the file line by line and, after the characters of     *)
(* each line, feeds its parser an end-of-line mark.                        *)
EOL == "EOL"

RECURSIVE LinesWithEOL(_)
LinesWithEOL(s) ==
    IF s = <<>> THEN <<>>
    ELSE IF Head(s) = LF \/ Len(s) = 1
         THEN <<Head(s), EOL>> \o LinesWithEOL(Tail(s))
         ELSE <<Head(s)>> \o LinesWithEOL(Tail(s))

(* The reader's parser (default dialect: doublequote, not strict).         *)
ParserStart ==
    [state |-> "START_RECORD", field |-> <<>>, fields |-> <<>>,
     rows |-> <<>>, err |-> FALSE]

SaveField(P, next) ==
    [P EXCEPT !.fields = Append(P.fields, P.field), !.field = <<>>,
              !.state = next]

AddChar(P, c, next) ==
    [P EXCEPT !.field = Append(P.field, c), !.state = next]

AfterLineEnd(c) == IF c = EOL THEN "START_RECORD" ELSE "EAT_CRNL"

ProcessChar(P, c) ==
    CASE P.state \in {"START_RECORD", "START_FIELD"} ->
            IF P.state = "START_RECORD" /\ c = EOL THEN P
            ELSE IF P.state = "START_RECORD" /\ c \in {LF, CR}
                 THEN [P EXCEPT !.state = "EAT_CRNL"]
            ELSE IF c \in {LF, CR, EOL} THEN SaveField(P, AfterLineEnd(c))
            ELSE IF c = QUOTE THEN [P EXCEPT !.state = "IN_QUOTED_FIELD"]
            ELSE IF c = COMMA THEN SaveField(P, "START_FIELD")
            ELSE AddChar(P, c, "IN_FIELD")
      [] P.state = "IN_FIELD" ->
            IF c \in {LF, CR, EOL} THEN SaveField(P, AfterLineEnd(c))
            ELSE IF c = COMMA THEN SaveField(P, "START_FIELD")
            ELSE AddChar(P, c, "IN_FIELD")
      [] P.state = "IN_QUOTED_FIELD" ->
            IF c = EOL THEN P
            ELSE IF c = QUOTE THEN [P EXCEPT !.state = "QUOTE_IN_QUOTED_FIELD"]
            ELSE AddChar(P, c, "IN_QUOTED_FIELD")
      [] P.state = "QUOTE_IN_QUOTED_FIELD" ->
            IF c = QUOTE THEN AddChar(P, c, "IN_QUOTED_FIELD")
            ELSE IF c = COMMA THEN SaveField(P, "START_FIELD")
            ELSE IF c \in {LF, CR, EOL} THEN SaveField(P, AfterLineEnd(c))
            ELSE AddChar(P, c, "IN_FIELD")
      [] P.state = "EAT_CRNL" ->
            IF c \in {LF, CR} THEN P
            ELSE IF c = EOL THEN [P EXCEPT !.state = "START_RECORD"]
            ELSE [P EXCEPT !.err = TRUE]

(* A record is complete when the parser is back at START_RECORD after an   *)
(* end-of-line mark.                                                       *)
EmitRow(P) ==
    [P EXCEPT !.rows = Append(P.rows, P.fields), !.fields = <<>>]

Feed(P, c) ==
    LET Q == ProcessChar(P, c)
    IN  IF ~Q.err /\ c = EOL /\ Q.state = "START_RECORD" THEN EmitRow(Q) ELSE Q

RECURSIVE ParseAll(_, _)
ParseAll(s, P) ==
    IF P.err \/ s = <<>> THEN P ELSE ParseAll(Tail(s), Feed(P, Head(s)))

(* At the end of the file an unfinished field still makes a record.        *)
AtEndOfFile(P) ==
    IF ~P.err /\ (P.field # <<>> \/ P.state = "IN_QUOTED_FIELD")
    THEN EmitRow(SaveField(P, "START_RECORD"))
    ELSE P

csv_reader(data) == AtEndOfFile(ParseAll(LinesWithEOL(data), ParserStart))

(* load_chat_history(): [] when there is no file; otherwise the records    *)
(* after the first one, which next(csv_reader, None) consumes.  open()     *)
(* raises when the file cannot be read.  SkipFirst_kept is the function    *)
(* without line 81.                                                        *)
SkipFirst_kept(rows) == rows

SkipFirst(rows) == IF rows = <<>> THEN <<>> ELSE Tail(rows)

load_chat_history(file, canRead) ==
    IF ~file.exists THEN [raised |-> FALSE, rows |-> <<>>]
    ELSE IF ~canRead THEN [raised |-> TRUE, rows |-> <<>>]
    ELSE LET P == csv_reader(UniversalNewlines(file.data))
         IN  IF P.err THEN [raised |-> TRUE, rows |-> <<>>]
             ELSE [raised |-> FALSE, rows |-> SkipFirst(P.rows)]

---------------------------------------------------------------------------
(* intents.json.  A document is absent, or not JSON at all, or a JSON      *)
(* value: a number, an object, or a list whose items are numbers or        *)
(* objects.  An item object carries any of the keys tag, patterns,         *)
(* responses.                                                              *)
NoSource == [exists |-> FALSE, json |-> [type |-> "none"]]
SourceOf(doc) == [exists |-> TRUE, json |-> doc]
ListOf(items) == [type |-> "list", items |-> items]
ObjectOf(fields) == [type |-> "object", fields |-> fields]
Unloaded == [type |-> "none"]

Has(item, key) == key \in DOMAIN item.fields

(* Lines 20-24: the flattened corpus.  Iterating a non-list, calling .get  *)
(* on a non-object and intent["tag"] on an object without a tag raise.     *)
Failed == [raised |-> TRUE, tags |-> <<>>, patterns |-> <<>>]

RECURSIVE Flatten(_)
Flatten(items) ==
    IF items = <<>> THEN [raised |-> FALSE, tags |-> <<>>, patterns |-> <<>>]
    ELSE LET it == Head(items)
         IN  IF it.type # "object" THEN Failed
             ELSE LET ps == IF Has(it, "patterns") THEN it.fields.patterns
                            ELSE <<>>
                  IN  IF Len(ps) > 0 /\ ~Has(it, "tag") THEN Failed
                      ELSE LET rest == Flatten(Tail(items))
                           IN  IF rest.raised THEN Failed
                               ELSE [raised |-> FALSE,
                                     tags |-> [i \in 1..Len(ps) |-> it.fields.tag]
                                              \o rest.tags,
                                     patterns |-> ps \o rest.patterns]

TrainingData(doc) ==
    IF doc.type = "list" THEN Flatten(doc.items)
    ELSE IF doc.type = "object" /\ DOMAIN doc.fields = {}
         THEN [raised |-> FALSE, tags |-> <<>>, patterns |-> <<>>]
    ELSE Failed

(* TfidfVectorizer(): lower-cases the text and takes as tokens the runs of *)
(* two or more word characters.  H, I and G are the capitals the model's   *)
(* texts use.                                                              *)
NonWord == {SP, TAB, CR, LF, COMMA, QUOTE, "!", "?"}
IsWord(c) == c \notin NonWord

Lower(c) ==
    CASE c = "H" -> "h" [] c = "I" -> "i" [] c = "G" -> "g" [] OTHER -> c

RECURSIVE Runs(_, _)
Runs(s, cur) ==
    LET done == IF cur = <<>> THEN <<>> ELSE <<cur>>
    IN  IF s = <<>> THEN done
        ELSE IF IsWord(Head(s)) THEN Runs(Tail(s), Append(cur, Lower(Head(s))))
        ELSE done \o Runs(Tail(s), <<>>)

IsToken(r) == Len(r) >= 2
Tokens(text) == SelectSeq(Runs(text, <<>>), IsToken)

Range(s) == {s[i] : i \in 1..Len(s)}

(* vectorizer.fit_transform(patterns): the vocabulary.                     *)
Vocabulary(patterns) == UNION {Range(Tokens(p)) : p \in Range(patterns)}

(* vectorizer.transform([text]): the count of each vocabulary term; terms  *)
(* outside the vocabulary are dropped.                                     *)
transform(vocabulary, text) ==
    LET toks == Tokens(text)
    IN  [t \in vocabulary |-> Cardinality({i \in 1..Len(toks) : toks[i] = t})]

(* clf.classes_ after clf.fit(X, tags).                                    *)
Classes(tags) == Range(tags)

(* The script's top-level code, lines 10-35: st.stop() after st.error      *)
(* ("stopped") when the file is missing or the corpus is empty; an         *)
(* uncaught exception ("crashed") when json.load or the loop raises, when  *)
(* fit_transform finds no token at all (empty vocabulary) and when clf.fit *)
(* is given fewer than two classes; otherwise the script goes on to main.  *)
Startup(src) ==
    IF ~src.exists THEN [phase |-> "stopped", intents |-> Unloaded]
    ELSE IF src.json.type = "invalid"
         THEN [phase |-> "crashed", intents |-> Unloaded]
    ELSE LET data == TrainingData(src.json)
         IN  IF data.raised THEN [phase |-> "crashed", intents |-> src.json]
             ELSE IF Len(data.patterns) = 0 \/ Len(data.tags) = 0
                  THEN [phase |-> "stopped", intents |-> src.json]
             ELSE IF Vocabulary(data.patterns) = {}
                  THEN [phase |-> "crashed", intents |-> src.json]
             ELSE IF Cardinality(Classes(data.tags)) < 2
                  THEN [phase |-> "crashed", intents |-> src.json]
             ELSE [phase |-> "interactive", intents |-> src.json]

---------------------------------------------------------------------------
(* chatbot(input_text), lines 48-59.                                       *)
Prompt == <<"I'm here to chat! Please enter a message.">>
Fallback == <<"Sorry", COMMA, SP, "I don't have an answer for that.">>
NotSure == <<"I'm not sure how to respond to that.">>

(* str.strip(): leading and trailing whitespace removed.                   *)
RECURSIVE lstrip(_)
lstrip(s) ==
    IF s # <<>> /\ Head(s) \in Whitespace THEN lstrip(Tail(s)) ELSE s

RECURSIVE rstrip(_)
rstrip(s) ==
    IF s # <<>> /\ s[Len(s)] \in Whitespace
    THEN rstrip(SubSeq(s, 1, Len(s) - 1)) ELSE s

strip(s) == rstrip(lstrip(s))

(* clf.predict(input_vector)[0].  The fitted weights are not modelled: the *)
(* prediction is one of clf.classes_, whatever the vector.                 *)
predict(classes, input_vector) == classes

(* The loop of lines 55-57: the first intent whose tag is the predicted    *)
(* one; intent["tag"] raises KeyError on an intent without a tag.          *)
RECURSIVE Lookup(_, _)
Lookup(items, tag) ==
    IF items = <<>> THEN [kind |-> "none"]
    ELSE IF ~Has(Head(items), "tag") THEN [kind |-> "KeyError"]
    ELSE IF Head(items).fields.tag = tag
         THEN [kind |-> "found", intent |-> Head(items)]
    ELSE Lookup(Tail(items), tag)

NoReply ==
    [called |-> FALSE, text |-> <<>>, raised |-> FALSE, response |-> <<>>,
     tag |-> "", invoked |-> FALSE, predicted |-> ""]

(* A call's outcome: what it returned or that it raised, whether it        *)
(* reached the classifier, and the tag the classifier predicted.           *)
Returned(text, response, tag, predicted) ==
    [called |-> TRUE, text |-> text, raised |-> FALSE, response |-> response,
     tag |-> tag, invoked |-> TRUE, predicted |-> predicted]

Raised(text, predicted) ==
    [called |-> TRUE, text |-> text, raised |-> TRUE, response |-> <<>>,
     tag |-> "", invoked |-> TRUE, predicted |-> predicted]

ShortCircuit(text) ==
    [called |-> TRUE, text |-> text, raised |-> FALSE, response |-> Prompt,
     tag |-> "unknown", invoked |-> FALSE, predicted |-> ""]

(* random.choice(intent.get("responses", [Fallback])): IndexError on an    *)
(* empty list.                                                             *)
Choose(text, intent, tag) ==
    LET responses == IF Has(intent, "responses") THEN intent.fields.responses
                     ELSE <<Fallback>>
    IN  IF Len(responses) = 0 THEN {Raised(text, tag)}
        ELSE {Returned(text, responses[i], tag, tag) : i \in 1..Len(responses)}

Respond(doc, text, tag) ==
    LET hit == Lookup(doc.items, tag)
    IN  CASE hit.kind = "KeyError" -> {Raised(text, tag)}
          [] hit.kind = "found" -> Choose(text, hit.intent, tag)
          [] OTHER -> {Returned(text, NotSure, "unknown", tag)}

(* chatbot without the test of line 49: every text goes to the classifier. *)
chatbot_unguarded(doc, text) ==
    LET data == TrainingData(doc)
        input_vector == transform(Vocabulary(data.patterns), text)
    IN  UNION {Respond(doc, text, tag) :
                   tag \in predict(Classes(data.tags), input_vector)}

(* Every outcome a call chatbot(text) can have with intents = doc.         *)
chatbot(doc, text) ==
    IF strip(text) = <<>> THEN {ShortCircuit(text)}
    ELSE LET data == TrainingData(doc)
             input_vector == transform(Vocabulary(data.patterns), text)
         IN  UNION {Respond(doc, text, tag) :
                        tag \in predict(Classes(data.tags), input_vector)}

---------------------------------------------------------------------------
(* Texts and intents the model draws its inputs from.                      *)
hi == <<"h", "i">>
bye == <<"b", "y", "e">>
hello == <<"h", "e", "l", "l", "o">>
Hey == <<"Hey!">>
Yo == <<"Yo">>
SeeYa == <<"See ya">>

Greeting == ObjectOf([tag |-> "greeting", patterns |-> <<hi, hello>>,
                      responses |-> <<Hey>>])
Goodbye == ObjectOf([tag |-> "goodbye", patterns |-> <<bye>>,
                     responses |-> <<SeeYa>>])
Catalog == ListOf(<<Greeting, Goodbye>>)

IntentPool ==
    { Greeting, Goodbye,
      ObjectOf([tag |-> "greeting", patterns |-> <<hello>>,
                responses |-> <<Hey, Yo>>]),
      ObjectOf([tag |-> "goodbye", patterns |-> <<hi>>,
                responses |-> <<SeeYa>>]),
      ObjectOf([tag |-> "goodbye", patterns |-> <<bye>>, responses |-> <<>>]),
      ObjectOf([tag |-> "goodbye", patterns |-> <<bye>>]),
      ObjectOf([tag |-> "thanks", responses |-> <<Yo>>]),
      ObjectOf([tag |-> "thanks", patterns |-> <<>>, responses |-> <<Yo>>]),
      ObjectOf([tag |-> "thanks", patterns |-> << <<"k">> >>,
                responses |-> <<Yo>>]),
      ObjectOf([patterns |-> <<hi>>, responses |-> <<Hey>>]),
      ObjectOf([responses |-> <<Hey>>]),
      [type |-> "number"] }

RECURSIVE ListsUpTo(_)
ListsUpTo(n) ==
    IF n = 0 THEN {<<>>}
    ELSE LET shorter == ListsUpTo(n - 1)
         IN  shorter \cup {Append(l, x) : l \in shorter, x \in IntentPool}

Sources ==
    {NoSource, SourceOf([type |-> "invalid"]), SourceOf([type |-> "number"]),
     SourceOf(ObjectOf([intents |-> "list"]))}
    \cup {SourceOf(ListOf(l)) : l \in ListsUpTo(MaxIntents)}

ChatTexts ==
    {<<>>, <<SP>>, <<SP, TAB, LF>>, hi, bye, hello, <<"H", "i", "!">>,
     <<SP, "y", "o">>}

LogTexts == {<<>>, hi, <<"a", COMMA, QUOTE, "b">>, <<"a", LF, "b">>}
LogReplies == {SeeYa, Fallback, <<"a", CR, LF, "b">>}

PageTexts == {<<>>, hi, <<SP>>}

---------------------------------------------------------------------------
(* The parts of the state a specification leaves alone.                    *)
ChatReady ==
    /\ source = SourceOf(Catalog)
    /\ phase = "interactive"
    /\ intents = Catalog
    /\ reply = NoReply

NotLoaded == [called |-> FALSE, raised |-> FALSE, rows |-> <<>>, of |-> <<>>]
ReadWrite == [read |-> TRUE, write |-> TRUE]

LogFresh ==
    /\ log = NoFile
    /\ perm = ReadWrite
    /\ clock = 0
    /\ origin = "absent"
    /\ recorded = <<>>
    /\ history = NotLoaded

NoRun == [status |-> "none", page |-> "none", shown |-> <<>>]

PageIdle ==
    /\ choice = "Chat"
    /\ user_input = <<>>
    /\ chat_history = <<>>
    /\ run = NoRun
    /\ submitted = <<>>

---------------------------------------------------------------------------
(* The chatbot alone: the script's top-level code runs on some             *)
(* intents.json, then chatbot is called on texts.                          *)
InitChat ==
    /\ source \in Sources
    /\ phase = "boot"
    /\ intents = Unloaded
    /\ reply = NoReply
    /\ LogFresh
    /\ PageIdle

RunStartup ==
    /\ phase = "boot"
    /\ phase' = Startup(source).phase
    /\ intents' = Startup(source).intents
    /\ UNCHANGED <<source, reply, logVars, pageVars>>

CallChatbot(text) ==
    /\ phase = "interactive"
    /\ reply' \in chatbot(intents, text)
    /\ UNCHANGED <<source, phase, intents, logVars, pageVars>>

NextChat == RunStartup \/ \E text \in ChatTexts : CallChatbot(text)

SpecChat == InitChat /\ [][NextChat]_vars

---------------------------------------------------------------------------
(* The chat log alone: save_chat_log and load_chat_history called in any   *)
(* order on a store that starts absent, empty, header-only or with a row   *)
(* of an earlier run.                                                      *)
EarlierRow == <<bye, SeeYa, strftime(0)>>

InitialLogs ==
    { [origin |-> "absent", file |-> NoFile, rows |-> <<>>],
      [origin |-> "empty", file |-> FileOf(<<>>), rows |-> <<>>],
      [origin |-> "header", file |-> FileOf(writerow(HeaderRow)),
       rows |-> <<>>],
      [origin |-> "rows",
       file |-> FileOf(writerow(HeaderRow) \o writerow(EarlierRow)),
       rows |-> <<EarlierRow>>] }

InitLog ==
    /\ \E start \in InitialLogs :
          /\ log = start.file
          /\ origin = start.origin
          /\ recorded = start.rows
    /\ perm = ReadWrite
    /\ clock = 0
    /\ history = NotLoaded
    /\ ChatReady
    /\ PageIdle

SaveChatLog(user, response) ==
    /\ Len(recorded) < MaxSaves
    /\ LET out == save_chat_log(log, perm.write, user, response, clock)
       IN  /\ log' = out.file
           /\ recorded' = IF out.raised THEN recorded
                          ELSE Append(recorded, <<user, response, strftime(clock)>>)
    /\ history' = NotLoaded
    /\ UNCHANGED <<perm, clock, origin, chatVars, pageVars>>

LoadChatHistory ==
    /\ LET out == load_chat_history(log, perm.read)
       IN  history' = [called |-> TRUE, raised |-> out.raised,
                       rows |-> out.rows, of |-> recorded]
    /\ UNCHANGED <<log, perm, clock, origin, recorded, chatVars, pageVars>>

NextLog ==
    \/ \E user \in LogTexts, response \in LogReplies :
          SaveChatLog(user, response)
    \/ LoadChatHistory

SpecLog == InitLog /\ [][NextLog]_vars

---------------------------------------------------------------------------
(* main(), lines 86-159, as Streamlit runs it: every interaction with a    *)
(* widget runs the script once from the top.  A text box keeps its value   *)
(* from run to run while it is rendered; a button is True only in the run  *)
(* its click starts; an exception ends the run where it is raised and      *)
(* leaves st.session_state as it then is.                                  *)
emoji_reactions(tag) ==
    CASE tag = "greeting" -> "wave"
      [] tag = "goodbye" -> "wave smile"
      [] tag = "age" -> "hourglass"
      [] tag = "thankyou" -> "folded hands"
      [] tag = "help" -> "bulb"
      [] tag = "unknown" -> "thinking"
      [] OTHER -> "speech balloon"

QuickReplies == {"Hello", "Help", "Goodbye"}

QuickReplyText(button) ==
    CASE button = "Hello" -> <<"H", "e", "l", "l", "o">>
      [] button = "Help" ->
            <<"I", SP, "n", "e", "e", "d", SP, "h", "e", "l", "p">>
      [] button = "Goodbye" -> <<"G", "o", "o", "d", "b", "y", "e">>

You(text) == <<"You", text, "technologist">>
Bot(r) == <<"Chatbot", r.response, emoji_reactions(r.tag)>>

(* The state a run works on and leaves behind.                             *)
Crash(st) == [st EXCEPT !.status = "exception"]

(* Lines 103-112: the text box holds a text.                               *)
SubmitBlock(st, text, now) ==
    IF text = <<>> THEN {st}
    ELSE { IF r.raised THEN Crash(st)
           ELSE LET said == [st EXCEPT !.session =
                                 st.session \o <<You(text), Bot(r)>>]
                    out == save_chat_log(st.file, st.perm.write, text,
                                         r.response, now)
                IN  IF out.raised THEN Crash(said)
                    ELSE [said EXCEPT !.file = out.file,
                                      !.saved = Append(st.saved,
                                          <<text, r.response, strftime(now)>>)]
           : r \in chatbot(st.intents, text) }

(* Lines 114-120: the chat history is drawn.                               *)
DisplayBlock(st) ==
    IF st.status = "exception" THEN st ELSE [st EXCEPT !.shown = st.session]

(* Lines 122-136: the quick reply clicked, if any.                         *)
QuickReplyBlock(st, button) ==
    IF st.status = "exception" \/ button \notin QuickReplies THEN {st}
    ELSE LET text == QuickReplyText(button)
             asked == [st EXCEPT !.session = Append(st.session, You(text))]
         IN  { IF r.raised THEN Crash(asked)
               ELSE [asked EXCEPT !.session = Append(asked.session, Bot(r))]
               : r \in chatbot(st.intents, text) }

(* Lines 138-149: the Conversation History page.                           *)
HistoryBlock(st) ==
    LET out == load_chat_history(st.file, st.perm.read)
    IN  IF out.raised THEN Crash(st) ELSE [st EXCEPT !.shown = out.rows]

main(st, page, text, button, now) ==
    CASE page = "Chat" ->
            UNION { QuickReplyBlock(DisplayBlock(s1), button)
                    : s1 \in SubmitBlock(st, text, now) }
      [] page = "Conversation History" -> {HistoryBlock(st)}
      [] OTHER -> {st}

Menu == {"Chat", "Conversation History", "About"}

(* One script run started by the user's interaction.                       *)
ScriptRun(page, text, button) ==
    LET before == [status |-> "ok", session |-> chat_history, shown |-> <<>>,
                   file |-> log, saved |-> recorded, perm |-> perm,
                   intents |-> intents]
    IN  \E after \in main(before, page, text, button, clock) :
           /\ chat_history' = after.session
           /\ log' = after.file
           /\ recorded' = after.saved
           /\ run' = [status |-> after.status, page |-> page,
                      shown |-> after.shown]

InitPage ==
    /\ ChatReady
    /\ LogFresh
    /\ PageIdle

Tick ==
    /\ clock < MaxClock
    /\ clock' = clock + 1
    /\ UNCHANGED <<log, perm, origin, recorded, history, chatVars, pageVars>>

(* The user enters a text in the box (or clears it); only a changed value  *)
(* starts a run.                                                           *)
TypeMessage(text) ==
    /\ choice = "Chat"
    /\ text # user_input
    /\ Len(submitted) < MaxTurns
    /\ user_input' = text
    /\ submitted' = IF text = <<>> THEN submitted ELSE Append(submitted, text)
    /\ ScriptRun("Chat", text, "none")
    /\ UNCHANGED <<choice, perm, clock, origin, history, chatVars>>

(* The user clicks a quick reply; the box still holds what it held.        *)
ClickQuickReply(button) ==
    /\ choice = "Chat"
    /\ Len(submitted) < MaxTurns
    /\ submitted' = Append(submitted, QuickReplyText(button))
    /\ ScriptRun("Chat", user_input, button)
    /\ UNCHANGED <<choice, user_input, perm, clock, origin, history, chatVars>>

(* The user picks another page; a text box that is not rendered loses its  *)
(* value.                                                                  *)
SelectPage(page) ==
    /\ page # choice
    /\ choice' = page
    /\ user_input' = <<>>
    /\ ScriptRun(page, <<>>, "none")
    /\ UNCHANGED <<submitted, perm, clock, origin, history, chatVars>>

NextPage ==
    \/ Tick
    \/ \E text \in PageTexts : TypeMessage(text)
    \/ \E button \in QuickReplies : ClickQuickReply(button)
    \/ \E page \in Menu : SelectPage(page)

SpecPage == InitPage /\ [][NextPage]_vars

(* The same, with chat_log.csv becoming unreadable or unwritable.          *)
Permissions ==
    {ReadWrite, [read |-> TRUE, write |-> FALSE],
     [read |-> FALSE, write |-> FALSE]}

SetPermissions(p) ==
    /\ p # perm
    /\ perm' = p
    /\ UNCHANGED <<log, clock, origin, recorded, history, chatVars, pageVars>>

NextFaults == NextPage \/ \E p \in Permissions : SetPermissions(p)

SpecFaults == InitPage /\ [][NextFaults]_vars

---------------------------------------------------------------------------
(* The chatbot with the classifier at its best: a text with the features   *)
(* of a training pattern is given the tag of such a pattern.  Whatever     *)
(* fails here fails for every decision function clf.fit can produce.       *)
TagsTaught(doc, text) ==
    LET data == TrainingData(doc)
        vocabulary == Vocabulary(data.patterns)
    IN  {data.tags[i] : i \in {j \in 1..Len(data.tags) :
            transform(vocabulary, data.patterns[j])
                = transform(vocabulary, text)}}

CallChatbotRecalling(text) ==
    /\ CallChatbot(text)
    /\ (reply'.invoked /\ TagsTaught(intents, text) # {})
          => reply'.predicted \in TagsTaught(intents, text)

NextRecall == RunStartup \/ \E text \in ChatTexts : CallChatbotRecalling(text)

SpecRecall == InitChat /\ [][NextRecall]_vars

---------------------------------------------------------------------------
(* Properties of the program.                                              *)

IsBlank(text) == \A i \in 1..Len(text) : text[i] \in {SP, TAB, CR, LF}

(* C1: chatbot on an empty or whitespace-only text returns the prompt      *)
(* "I'm here to chat! Please enter a message." with the tag "unknown" and  *)
(* does not reach vectorizer.transform / clf.predict.                      *)
C1_BlankInputShortCircuits ==
    (reply.called /\ IsBlank(reply.text))
        => /\ ~reply.raised
           /\ reply.response = Prompt
           /\ reply.tag = "unknown"
           /\ ~reply.invoked

C1_Witness ==
    /\ reply.called
    /\ reply.text = <<SP, TAB, LF>>
    /\ reply.response = Prompt
    /\ ~reply.invoked

TaggedItems(doc, tag) ==
    {i \in 1..Len(doc.items) :
        Has(doc.items[i], "tag") /\ doc.items[i].fields.tag = tag}

AnswersFrom(item, response) ==
    IF Has(item, "responses") /\ Len(item.fields.responses) > 0
    THEN response \in Range(item.fields.responses)
    ELSE response = Fallback

(* C2: on a non-blank text whose predicted tag is the tag of a loaded      *)
(* intent, chatbot does not raise and returns that tag with one of that    *)
(* intent's responses, or the fallback string when the intent has no       *)
(* responses (an empty list, or no list).                                  *)
C2_KnownTagAnswered ==
    (/\ reply.called
     /\ ~IsBlank(reply.text)
     /\ TaggedItems(intents, reply.predicted) # {})
        => /\ ~reply.raised
           /\ reply.tag = reply.predicted
           /\ \E i \in TaggedItems(intents, reply.predicted) :
                 AnswersFrom(intents.items[i], reply.response)

WellFormedRecord(item) ==
    /\ item.type = "object"
    /\ {"tag", "patterns", "responses"} \subseteq DOMAIN item.fields

Malformed(src) ==
    /\ src.exists
    /\ \/ src.json.type # "list"
       \/ \E i \in 1..Len(src.json.items) : ~WellFormedRecord(src.json.items[i])

EmptyCorpus(src) ==
    /\ src.exists
    /\ src.json.type = "list"
    /\ \A i \in 1..Len(src.json.items) :
          /\ src.json.items[i].type = "object"
          /\ Has(src.json.items[i], "patterns")
                => Len(src.json.items[i].fields.patterns) = 0

(* C6: with intents.json absent, malformed (not a list of records that     *)
(* each have tag, patterns and responses) or giving no pattern at all, the *)
(* script never becomes interactive.                                       *)
C6_BadSourceNeverInteractive ==
    (~source.exists \/ Malformed(source) \/ EmptyCorpus(source))
        => phase # "interactive"

(* C7: once the script is interactive no two intents share a tag, so at    *)
(* most one intent matches a predicted tag.                                *)
C7_TagsUnique ==
    phase = "interactive"
        => \A i, j \in 1..Len(intents.items) :
              (/\ i # j
               /\ Has(intents.items[i], "tag")
               /\ Has(intents.items[j], "tag"))
                 => intents.items[i].fields.tag # intents.items[j].fields.tag

TrainableCorpus(doc) ==
    /\ doc.type = "list"
    /\ \A i \in 1..Len(doc.items) :
          /\ doc.items[i].type = "object"
          /\ Has(doc.items[i], "tag")
          /\ Has(doc.items[i], "patterns")
          /\ Len(doc.items[i].fields.patterns) >= 1
    /\ Cardinality({doc.items[i].fields.tag : i \in 1..Len(doc.items)}) >= 2

(* C10: with at least two tags and a pattern for every tag, a text equal   *)
(* to a training pattern is given that pattern's tag; with the catalog     *)
(* greeting{hi, hello -> Hey!}, goodbye{bye -> See ya}, chatbot("hello")   *)
(* is ("Hey!", "greeting") and chatbot("bye") is ("See ya", "goodbye").    *)
C10_ExactMatchRecall ==
    (phase = "interactive" /\ TrainableCorpus(intents) /\ reply.invoked)
        => /\ \A i \in 1..Len(intents.items) :
                 reply.text \in Range(intents.items[i].fields.patterns)
                    => reply.predicted = intents.items[i].fields.tag
           /\ (intents = Catalog /\ reply.text = hello)
                 => (reply.response = Hey /\ reply.tag = "greeting")
           /\ (intents = Catalog /\ reply.text = bye)
                 => (reply.response = SeeYa /\ reply.tag = "goodbye")

(* C3: from a log that does not exist, after n >= 1 save_chat_log calls    *)
(* load_chat_history returns n rows in call order, row i with the user     *)
(* text and the response of call i.                                        *)
C3_SavedRowsReadBack ==
    (history.called /\ origin = "absent" /\ Len(history.of) >= 1)
        => /\ ~history.raised
           /\ Len(history.rows) = Len(history.of)
           /\ \A i \in 1..Len(history.of) :
                 /\ Len(history.rows[i]) = 3
                 /\ history.rows[i][1] = history.of[i][1]
                 /\ history.rows[i][2] = history.of[i][2]

FirstRecord(file) ==
    LET P == csv_reader(UniversalNewlines(file.data))
    IN  IF P.rows = <<>> THEN <<>> ELSE Head(P.rows)

(* C4: whatever the log was at first (absent, empty, header only, header   *)
(* and rows), once it holds a row written by save_chat_log its first row   *)
(* is the header, and load_chat_history returns as many rows as were       *)
(* recorded.                                                               *)
C4_HeaderFirstNothingDropped ==
    /\ (log.exists /\ Len(recorded) >= 1) => FirstRecord(log) = HeaderRow
    /\ history.called
          => (~history.raised /\ Len(history.rows) = Len(history.of))

(* C8: load_chat_history returns [] and does not raise when there is no    *)
(* log file, when the file is empty and when it holds the header alone.    *)
C8_NothingToRead ==
    (/\ history.called
     /\ \/ ~log.exists
        \/ log.data = <<>>
        \/ log.data = writerow(HeaderRow))
        => (~history.raised /\ history.rows = <<>>)

C8_Witness ==
    /\ history.called
    /\ log.exists
    /\ log.data = writerow(HeaderRow)
    /\ history.rows = <<>>

(* C5: every submission, typed or by quick reply, adds exactly one row     *)
(* with its text to the log: the rows written are the submissions, in      *)
(* order.                                                                  *)
C5_OneRowPerSubmission ==
    /\ Len(recorded) = Len(submitted)
    /\ \A i \in 1..Len(recorded) :
          i <= Len(submitted) => recorded[i][1] = submitted[i]

(* C9: a script run never ends in an exception when chat_log.csv cannot be *)
(* read or written: the history page shows an empty history, the chat page *)
(* shows the exchange it kept in chat_history.                             *)
C9_StorageFailureContained ==
    /\ run.status # "exception"
    /\ (run.page = "Chat" /\ user_input # <<>>)
          => \E i \in 1..Len(run.shown) : run.shown[i] = You(user_input)

====
